---- MODULE Spec2Model ----
(***************************************************************************)
(* The WebSocket relay of websocket_proxy.py: the global endpoint set, the *)
(* channel registry, one handler coroutine per connection and the          *)
(* broadcast loop, which suspends at every `await client.send(...)`.       *)
(***************************************************************************)
EXTENDS Integers, Sequences, FiniteSets, TLC

\* The connections (websocket objects) and the channel names of the model.
Endpoints == {1, 2, 3}
\* Connections are interchangeable: the ones whose transport closes or breaks
\* in a behaviour are these.
Fragile == {3}
ChannelNames == {"a", "b"}
\* Channel names are interchangeable: the first one ever joined is this one.
FirstJoined == "a"
\* data.get("channel") of a frame that carries no channel (Python None).
NoChannel == "none"

\* At most this many message frames are broadcast in one behaviour.
MaxMsgs == 2
\* At most this many join frames add a member in one behaviour.
MaxJoins == 3
\* The same two bounds in FrameSpec, the specification with every kind of
\* frame.
FrameMsgs == 1
FrameJoins == 2

\* The path of a connection: the relay's own, and the health path.
RootPath == "/"
HealthPath == "/health"

VARIABLES
    clients,    \* the global set `clients`
    channels,   \* the dict `channels`: channel name -> set of endpoints
    pc,         \* where each connection's handle_client coroutine stands
    bc,         \* the locals of each handler's broadcast_to_channel call
    broken,     \* endpoints whose transport raises on send
    inbox,      \* the broadcast frames written to each endpoint, in order
    nmsgs,      \* number of message frames broadcast so far
    njoins,     \* number of join frames that added a member so far
    last        \* what the latest step of the relay did (observer)

vars == <<clients, channels, pc, bc, broken, inbox, nmsgs, njoins, last>>

\* The Pending Request Table of the correlation layer: the registered
\* entries, each identifier's completion slot, the timer callbacks still
\* scheduled, the progress updates delivered to each identifier's observer,
\* and the table's last operation.
VARIABLES table, slot, timers, seen, note

pvars == <<table, slot, timers, seen, note>>

\* The colour conversion of the type module: the colour last converted and
\* the string returned for it.
VARIABLES color, hex

uvars == <<color, hex>>

\* The connection each broadcast frame came from, by the frame's number (0:
\* no such frame yet).  Only OrderSpec keeps it.
VARIABLE origin

\* The bound on joins that add a member in OrderSpec.
OrderJoins == 2

\* The correlation identifiers minted in one behaviour.
Ids == {1, 2}
\* The timeout a request is registered with, in clock ticks.
TimeoutDuration == 2
\* At most this many progress updates are delivered for one identifier.
MaxProgress == 2

\* A resolved slot holds one of these.
Terminal == {"success", "error", "timeout"}

\* What the table's last operation was: applied tells whether it found an
\* entry, raised whether it raised an error to its caller.
Note(op, id) ==
    [op |-> op, id |-> id, outcome |-> "none", applied |-> FALSE,
     raised |-> FALSE]

\* A new entry: the timer has the whole timeout left and the last activity
\* is now.  (The future of the entry is slot[id].)
PendingRequest(id) ==
    [id |-> id, timeout_handle |-> TimeoutDuration, last_activity |-> 0]

\* No broadcast in progress.  The fields member, stable and always belong to
\* the observer: whether the sender was a member of the channel when the
\* broadcast began, whether the channel's membership is unchanged since, and
\* who has been a member all the time.
NoBc == [chan |-> NoChannel, id |-> 0, used |-> 0, pending |-> {},
         rebuilt |-> FALSE, attached |-> FALSE, disconnected |-> {},
         member |-> FALSE, stable |-> FALSE, always |-> {}]

\* The forwarded frame with its type rewritten on the way.
MsgFrameRelabelled(id, ch) == [type |-> "broadcast", id |-> id, channel |-> ch]

\* The frame a recipient gets from a broadcast: the inbound structure.
MsgFrame(id, ch) == [type |-> "message", id |-> id, channel |-> ch]
\* The join acknowledgment (lines 110-116).
AckFrame(ch) == [type |-> "system", id |-> 0, channel |-> ch]
\* The reply without the frame's id.
NotFoundFrameNoId(id, ch) == [type |-> "notfound", id |-> 0, channel |-> ch]
\* Lines 135-138: the reply to a message frame that is not broadcast.
NotFoundFrame(id, ch) == [type |-> "notfound", id |-> id, channel |-> ch]

\* Lines 121-124: the reply to a join frame without a channel name.
ChannelRequiredFrame == [type |-> "error", id |-> 0, channel |-> NoChannel]
\* Lines 152-154: the reply to a frame that is not JSON.
InvalidJsonFrame == [type |-> "invalidjson", id |-> 0, channel |-> NoChannel]

\* The members of channel ch in registry chs (empty when ch is no key).
Members(chs, ch) == IF ch \in DOMAIN chs THEN chs[ch] ELSE {}

\* The observer's record of a step: the operation, the connection whose
\* handler ran, and for the steps of a broadcast its channel, frame id,
\* the endpoint sent to and whether that send succeeded; when a broadcast
\* ends: the clients whose delivery failed and the members throughout whose
\* transport works (owed); sent: the direct replies written, in order.
\* For a join, member tells whether the endpoint was in the channel before;
\* for a connect, path is the path the connection was opened on.
Event(op, e) ==
    [op |-> op, e |-> e, chan |-> NoChannel, id |-> 0, to |-> 0, ok |-> FALSE,
     member |-> FALSE, stable |-> FALSE, owed |-> {}, failed |-> {},
     sent |-> <<>>, path |-> RootPath]

Init ==
    /\ clients = {}
    /\ channels = [c \in {} |-> {}]
    /\ pc = [e \in Endpoints |-> "new"]
    /\ bc = [e \in Endpoints |-> NoBc]
    /\ broken = {}
    /\ inbox = [e \in Endpoints |-> <<>>]
    /\ nmsgs = 0
    /\ njoins = 0
    /\ last = Event("init", 0)
    /\ table = [i \in {} |-> PendingRequest(i)]
    /\ slot = [i \in Ids |-> "idle"]
    /\ timers = {}
    /\ seen = [i \in Ids |-> 0]
    /\ note = Note("init", 0)
    /\ color = [kind |-> "none", r |-> -1, g |-> -1, b |-> -1, a |-> -1]
    /\ hex = <<>>
    /\ origin = [k \in 1..MaxMsgs |-> 0]

(***************************************************************************)
(* The registry operations.                                                *)
(***************************************************************************)

\* register_client: clients.add(websocket).
RegisterClient(cl, e) == cl \cup {e}

\* unregister_client without line 37.
UnregisterClientForgotten(cl, e) == cl

\* unregister_client, line 37: clients.discard(websocket).
UnregisterClient(cl, e) == cl \ {e}

\* unregister_client without lines 46-48: emptied channels stay.
UnregisterChannelsKeepEmpty(chs, e) == [c \in DOMAIN chs |-> chs[c] \ {e}]

\* unregister_client deleting every channel the endpoint was in.
UnregisterChannelsDrop(chs, e) ==
    LET keep == {c \in DOMAIN chs : e \notin chs[c] /\ chs[c] # {}}
    IN  [c \in keep |-> chs[c]]

\* unregister_client, lines 40-47: discard the endpoint from every channel
\* and delete every channel whose member set is then empty.
UnregisterChannels(chs, e) ==
    LET keep == {c \in DOMAIN chs : chs[c] \ {e} # {}}
    IN  [c \in keep |-> chs[c] \ {e}]

\* A join that first takes the endpoint out of the channels it is in.
JoinChannelExclusive(chs, e, ch) ==
    LET left == UnregisterChannels(chs, e)
    IN  [c \in DOMAIN left \cup {ch} |->
            IF c = ch THEN Members(left, ch) \cup {e} ELSE left[c]]

\* join_channel making the member set anew when a member joins again.
JoinChannelReset(chs, e, ch) ==
    [c \in DOMAIN chs \cup {ch} |->
        IF c # ch THEN chs[c]
        ELSE IF e \in Members(chs, ch) THEN {e} ELSE Members(chs, ch) \cup {e}]

\* join_channel: create the channel if absent, then add the endpoint.
JoinChannel(chs, e, ch) ==
    [c \in DOMAIN chs \cup {ch} |->
        IF c = ch THEN Members(chs, ch) \cup {e} ELSE chs[c]]

(***************************************************************************)
(* The set iterator of `for client in channels[channel]`.  It walks the    *)
(* live set object: `used` is the size the iterator was created with,      *)
(* `pending` the members still ahead of its position.  `attached` tells    *)
(* whether the object is still the one the registry holds under the name   *)
(* (a deleted channel's object is empty and stays so); `rebuilt` that an   *)
(* element was added to it since the last step, after which the members    *)
(* ahead of the position are any subset of the set.                        *)
(***************************************************************************)

\* The set object the iterator walks, as it is now.
SetContents(it) == IF it.attached THEN Members(channels, it.chan) ELSE {}

\* iter(channels[channel]) at line 72, in the broadcast of frame id by e.
NewIter(e, ch, id) ==
    [chan |-> ch, id |-> id, used |-> Cardinality(channels[ch]),
     pending |-> channels[ch], rebuilt |-> FALSE, attached |-> TRUE,
     disconnected |-> {},
     member |-> e \in channels[ch], stable |-> TRUE, always |-> channels[ch]]

\* next(): "RuntimeError: Set changed size during iteration".
SizeChanged(it) == Cardinality(SetContents(it)) # it.used

\* An iterator that may pass over members.
AheadLossy(it) == SUBSET (it.pending \cap SetContents(it))

\* next(): the possible sets of members still ahead of the position.
Ahead(it) ==
    IF it.rebuilt THEN SUBSET SetContents(it)
    ELSE {it.pending \cap SetContents(it)}

\* The loop without the test of line 73.
RecipientsAll(p, sender) == p

\* Line 73: the members of p the message is sent to.
Recipients(p, sender) == p \ {sender}

\* Lines 74-81: client.send succeeds unless the transport is broken.
SendOk(c) == c \notin broken

\* A frame put in front of what endpoint c was sent before.
DeliverFirst(ib, c, frame) == [ib EXCEPT ![c] = <<frame>> \o @]

\* A frame written to endpoint c.
Deliver(ib, c, frame) == [ib EXCEPT ![c] = Append(@, frame)]

\* Lines 84-85: channels[channel].discard(client) for the failed clients.
CleanupChannels(chs, ch, disc) == [chs EXCEPT ![ch] = @ \ disc]

\* The clean-up without line 86.
CleanupClientsForgotten(cl, disc) == cl

\* Lines 84, 86: clients.discard(client) for the failed clients.
CleanupClients(cl, disc) == cl \ disc

\* What a change of the registry to newch does to the iterators of the
\* other handlers that are suspended in a broadcast.
Touch(newch, b, self) ==
    [s \in Endpoints |->
        IF pc[s] = "send" /\ s # self
        THEN LET it == b[s]
                 att == it.attached /\ it.chan \in DOMAIN newch
             IN  [it EXCEPT
                    !.attached = att,
                    !.rebuilt = it.rebuilt \/
                        (att /\ ~(newch[it.chan] \subseteq channels[it.chan])),
                    !.always = @ \cap Members(newch, it.chan),
                    !.stable = @ /\ Members(newch, it.chan)
                                     = Members(channels, it.chan)]
        ELSE b[s]]

\* The observer's record of the end of e's broadcast.
Ended(op, e, it) ==
    [Event(op, e) EXCEPT !.chan = it.chan, !.id = it.id,
                         !.member = it.member, !.stable = it.stable,
                         !.owed = it.always \ broken,
                         !.failed = it.disconnected]

(***************************************************************************)
(* broadcast_to_channel, from one suspension to the next.                  *)
(***************************************************************************)

\* The size check of next() fails: RuntimeError leaves the loop and the
\* function, and handle_client's `except Exception` (line 159) logs it.
IterError(e, it) ==
    /\ pc' = [pc EXCEPT ![e] = "recv"]
    /\ bc' = [bc EXCEPT ![e] = NoBc]
    /\ last' = Ended("abort", e, it)
    /\ UNCHANGED <<clients, channels, inbox>>

\* Lines 74-81: one client.send, after which the coroutine is suspended.
SendTo(e, it, p, c) ==
    /\ pc' = [pc EXCEPT ![e] = "send"]
    /\ last' = [Event("send", e) EXCEPT !.chan = it.chan, !.id = it.id,
                    !.member = it.member, !.to = c, !.ok = SendOk(c)]
    /\ IF SendOk(c)
       THEN /\ inbox' = Deliver(inbox, c, MsgFrame(it.id, it.chan))
            /\ bc' = [bc EXCEPT ![e] =
                        [it EXCEPT !.pending = p \ {c}, !.rebuilt = FALSE]]
       ELSE /\ inbox' = inbox
            /\ bc' = [bc EXCEPT ![e] =
                        [it EXCEPT !.pending = p \ {c}, !.rebuilt = FALSE,
                                   !.disconnected = @ \cup {c}]]
    /\ UNCHANGED <<clients, channels>>

\* Lines 83-86: the pass is over; the failed clients are discarded.
CleanUp(e, it) ==
    /\ pc' = [pc EXCEPT ![e] = "recv"]
    /\ inbox' = inbox
    /\ IF it.disconnected # {} /\ it.chan \notin DOMAIN channels
       THEN \* KeyError at line 85, logged at line 159
            /\ bc' = [bc EXCEPT ![e] = NoBc]
            /\ last' = Ended("abort", e, it)
            /\ UNCHANGED <<clients, channels>>
       ELSE LET newch == CleanupChannels(channels, it.chan, it.disconnected)
            IN  /\ channels' = newch
                /\ clients' = CleanupClients(clients, it.disconnected)
                /\ bc' = [Touch(newch, bc, e) EXCEPT ![e] = NoBc]
                /\ last' = Ended("complete", e, it)

\* The pass iterating a copy of the member set taken when it began.
AdvanceSnapshot(e, it) ==
    IF Recipients(it.pending, e) = {} THEN CleanUp(e, it)
    ELSE \E c \in Recipients(it.pending, e) : SendTo(e, it, it.pending, c)

\* The loop from line 72 on: next(), then a send or the end of the pass.
Advance(e, it) ==
    IF SizeChanged(it) THEN IterError(e, it)
    ELSE \E p \in Ahead(it) :
            IF Recipients(p, e) = {} THEN CleanUp(e, it)
            ELSE \E c \in Recipients(p, e) : SendTo(e, it, p, c)

(***************************************************************************)
(* handle_client.                                                          *)
(***************************************************************************)

\* Line 94: a connection is accepted and its handler registers it.
Connect(e) ==
    /\ pc[e] = "new"
    /\ pc' = [pc EXCEPT ![e] = "recv"]
    /\ clients' = RegisterClient(clients, e)
    /\ last' = Event("connect", e)
    /\ UNCHANGED <<channels, bc, broken, inbox, nmsgs, njoins>>
    /\ UNCHANGED <<pvars, uvars, origin>>

\* A reply written to every endpoint instead of the handler's own.
ReplyBroadcast(e, frame) ==
    [k \in 1..Cardinality(Endpoints) |-> [to |-> k, frame |-> frame]]

\* Lines 117, 139: websocket.send of a reply; a failure is logged at 159.
Reply(e, frame) ==
    IF SendOk(e) THEN <<[to |-> e, frame |-> frame]>> ELSE <<>>

\* Line 105 without the test: every join frame joins.
NamedAlways(ch) == TRUE

\* Line 105: `if channel`.
Named(ch) == ch # NoChannel

\* Lines 103-125: a join frame, with a channel name or without.
HandleJoin(e, ch) ==
    /\ pc[e] = "recv"
    /\ IF Named(ch)
       THEN /\ njoins < MaxJoins
            /\ njoins = 0 => ch = FirstJoined
            /\ njoins' = IF e \in Members(channels, ch) THEN njoins
                         ELSE njoins + 1
            /\ LET newch == JoinChannel(channels, e, ch)
               IN  /\ channels' = newch
                   /\ bc' = Touch(newch, bc, e)
            /\ last' = [Event("join", e) EXCEPT
                            !.chan = ch,
                            !.member = e \in Members(channels, ch),
                            !.sent = Reply(e, AckFrame(ch))]
       ELSE /\ last' = [Event("badjoin", e) EXCEPT
                            !.sent = Reply(e, ChannelRequiredFrame)]
            /\ UNCHANGED <<channels, bc, njoins>>
    /\ UNCHANGED <<clients, pc, broken, inbox, nmsgs>>
    /\ UNCHANGED <<pvars, uvars, origin>>

\* Line 130 asking for somebody to deliver to.
RoutablePopulated(ch) ==
    ch # NoChannel /\ ch \in DOMAIN channels /\ Cardinality(channels[ch]) > 1

\* Line 130: `if channel and channel in channels`.
Routable(ch) == ch # NoChannel /\ ch \in DOMAIN channels

\* Lines 128-139: a message frame.
HandleMessage(e, ch) ==
    /\ pc[e] = "recv"
    /\ nmsgs < MaxMsgs
    /\ nmsgs' = IF Routable(ch) THEN nmsgs + 1 ELSE nmsgs
    /\ IF Routable(ch)
       THEN Advance(e, NewIter(e, ch, nmsgs + 1))
       ELSE /\ last' = [Event("reject", e) EXCEPT !.chan = ch,
                            !.id = nmsgs + 1,
                            !.sent = Reply(e, NotFoundFrame(nmsgs + 1, ch))]
            /\ UNCHANGED <<clients, channels, pc, bc, inbox>>
    /\ UNCHANGED <<broken, njoins>>
    /\ UNCHANGED <<pvars, uvars>>

\* The event loop resumes a broadcast suspended at line 75.
Resume(e) ==
    /\ pc[e] = "send"
    /\ Advance(e, bc[e])
    /\ UNCHANGED <<broken, nmsgs, njoins>>
    /\ UNCHANGED <<pvars, uvars, origin>>

\* The transport of a connection closes or breaks: sends to it raise.
Break(e) ==
    /\ pc[e] \in {"recv", "send"}
    /\ e \in Fragile
    /\ e \notin broken
    /\ broken' = broken \cup {e}
    /\ last' = Event("break", e)
    /\ UNCHANGED <<clients, channels, pc, bc, inbox, nmsgs, njoins>>
    /\ UNCHANGED <<pvars, uvars, origin>>

\* Lines 162-167: the receive loop ends and the handler unregisters.
Disconnect(e) ==
    /\ pc[e] = "recv"
    /\ e \in broken
    /\ pc' = [pc EXCEPT ![e] = "closed"]
    /\ clients' = UnregisterClient(clients, e)
    /\ LET newch == UnregisterChannels(channels, e)
       IN  /\ channels' = newch
           /\ bc' = Touch(newch, bc, e)
    /\ last' = Event("disconnect", e)
    /\ UNCHANGED <<broken, inbox, nmsgs, njoins>>
    /\ UNCHANGED <<pvars, uvars, origin>>

\* Lines 150-158 with the JSONDecodeError escaping the receive loop: the
\* handler ends and line 167 unregisters the endpoint.
HandleMalformedCloses(e) ==
    /\ pc[e] = "recv"
    /\ pc' = [pc EXCEPT ![e] = "closed"]
    /\ clients' = UnregisterClient(clients, e)
    /\ LET newch == UnregisterChannels(channels, e)
       IN  /\ channels' = newch
           /\ bc' = Touch(newch, bc, e)
    /\ last' = Event("malformed", e)
    /\ UNCHANGED <<broken, inbox, nmsgs, njoins>>
    /\ UNCHANGED <<pvars, uvars, origin>>

\* Lines 150-158: a frame that json.loads rejects.
HandleMalformed(e) ==
    /\ pc[e] = "recv"
    /\ last' = [Event("malformed", e) EXCEPT
                    !.sent = Reply(e, InvalidJsonFrame)]
    /\ UNCHANGED <<clients, channels, pc, bc, broken, inbox, nmsgs, njoins>>
    /\ UNCHANGED <<pvars, uvars, origin>>

\* Lines 141-148 answering the frame it does not know.
HandleOtherReplies(e, kind) ==
    /\ pc[e] = "recv"
    /\ last' = [Event(kind, e) EXCEPT !.sent = Reply(e, ChannelRequiredFrame)]
    /\ UNCHANGED <<clients, channels, pc, bc, broken, inbox, nmsgs, njoins>>
    /\ UNCHANGED <<pvars, uvars, origin>>

\* Lines 141-148: a frame whose type is neither join nor message; it is
\* "direct" when it carries id and message, "unknown" otherwise.
HandleOther(e, kind) ==
    /\ pc[e] = "recv"
    /\ last' = Event(kind, e)
    /\ UNCHANGED <<clients, channels, pc, bc, broken, inbox, nmsgs, njoins>>
    /\ UNCHANGED <<pvars, uvars, origin>>

\* health_check, lines 172-177: the report it would send.  (No caller:
\* main serves every path with handle_client.)
HealthReport ==
    [status |-> "healthy", clients |-> Cardinality(clients),
     channels |-> [c \in DOMAIN channels |-> Cardinality(channels[c])]]

\* Lines 208-215 and 92-94: a connection opened on the health path is
\* handed to handle_client like any other.
OpenHealth(e) ==
    /\ pc[e] = "new"
    /\ pc' = [pc EXCEPT ![e] = "recv"]
    /\ clients' = RegisterClient(clients, e)
    /\ last' = [Event("connect", e) EXCEPT !.path = HealthPath]
    /\ UNCHANGED <<channels, bc, broken, inbox, nmsgs, njoins>>
    /\ UNCHANGED <<pvars, uvars, origin>>

Next ==
    \/ \E e \in Endpoints : Connect(e)
    \/ \E e \in Endpoints, ch \in ChannelNames : HandleJoin(e, ch)
    \/ \E e \in Endpoints, ch \in ChannelNames \cup {NoChannel} :
            HandleMessage(e, ch) /\ UNCHANGED origin
    \/ \E e \in Endpoints : Resume(e)
    \/ \E e \in Endpoints : Break(e)
    \/ \E e \in Endpoints : Disconnect(e)

Spec == Init /\ [][Next]_vars

\* Lines 99-101 and 159-160: a frame that is JSON but no object (an array, a
\* number, a string): data.get raises AttributeError, which is logged.
HandleNonObject(e) ==
    /\ pc[e] = "recv"
    /\ last' = Event("nonobject", e)
    /\ UNCHANGED <<clients, channels, pc, bc, broken, inbox, nmsgs, njoins>>
    /\ UNCHANGED <<pvars, uvars, origin>>

\* The relay keeping, for every broadcast frame, the connection it came
\* from (lines 97-132: the handler that read it).
OrderNext ==
    \/ \E e \in Endpoints : Connect(e)
    \/ \E e \in Endpoints, ch \in ChannelNames :
            HandleJoin(e, ch) /\ njoins' <= OrderJoins
    \/ \E e \in Endpoints, ch \in ChannelNames \cup {NoChannel} :
            /\ HandleMessage(e, ch)
            /\ origin' = IF Routable(ch) THEN [origin EXCEPT ![nmsgs + 1] = e]
                         ELSE origin
    \/ \E e \in Endpoints : Resume(e)
    \/ \E e \in Endpoints : Break(e)
    \/ \E e \in Endpoints : Disconnect(e)

OrderSpec == Init /\ [][OrderNext]_<<vars, origin>>

\* The relay with every kind of frame and connection, under its own bounds.
FrameNext ==
    \/ Next /\ nmsgs' <= FrameMsgs /\ njoins' <= FrameJoins
    \/ \E e \in Endpoints : HandleJoin(e, NoChannel)
    \/ \E e \in Endpoints : HandleMalformed(e)
    \/ \E e \in Endpoints, kind \in {"direct", "unknown"} :
            HandleOther(e, kind)
    \/ \E e \in Endpoints : OpenHealth(e)
    \/ \E e \in Endpoints : HandleNonObject(e)

FrameSpec == Init /\ [][FrameNext]_vars

\* ---- The Pending Request Table ----

\* resolve(id, outcome) without the test for an entry: the slot is fulfilled
\* whenever resolve is called.
ResolveUnchecked(id, outcome, cancelled) ==
    /\ slot' = [slot EXCEPT ![id] = outcome]
    /\ table' = [i \in DOMAIN table \ {id} |-> table[i]]
    /\ timers' = IF cancelled THEN timers \ {id} ELSE timers
    /\ note' = [Note("resolve", id) EXCEPT !.outcome = outcome,
                                           !.applied = TRUE]
    /\ UNCHANGED seen

\* resolve fulfilling whichever entry it finds first, not the one named.
ResolveAny(id, outcome, cancelled) ==
    IF DOMAIN table # {}
    THEN LET found == CHOOSE i \in DOMAIN table :
                          \A j \in DOMAIN table : i <= j
         IN  /\ slot' = [slot EXCEPT ![found] = outcome]
             /\ table' = [i \in DOMAIN table \ {found} |-> table[i]]
             /\ timers' = IF cancelled THEN timers \ {id} ELSE timers
             /\ note' = [Note("resolve", id) EXCEPT !.outcome = outcome,
                                                    !.applied = TRUE]
             /\ UNCHANGED seen
    ELSE /\ timers' = IF cancelled THEN timers \ {id} ELSE timers
         /\ note' = [Note("resolve", id) EXCEPT !.outcome = outcome]
         /\ UNCHANGED <<table, slot, seen>>

\* resolve(id, outcome): with an entry, the slot is fulfilled, the entry
\* removed and its timer cancelled; without an entry the resolution is
\* discarded.  cancelled tells whether the identifier's timer callback is
\* gone afterwards: FALSE when it was already on its way and fires late.
Resolve(id, outcome, cancelled) ==
    IF id \in DOMAIN table
    THEN /\ slot' = [slot EXCEPT ![id] = outcome]
         /\ table' = [i \in DOMAIN table \ {id} |-> table[i]]
         /\ timers' = IF cancelled THEN timers \ {id} ELSE timers
         /\ note' = [Note("resolve", id) EXCEPT !.outcome = outcome,
                                                !.applied = TRUE]
         /\ UNCHANGED seen
    ELSE /\ timers' = IF cancelled THEN timers \ {id} ELSE timers
         /\ note' = [Note("resolve", id) EXCEPT !.outcome = outcome]
         /\ UNCHANGED <<table, slot, seen>>

\* register(id, timeoutDuration): a fresh identifier gets an entry and an
\* armed timer; a registered one is refused with DuplicateId.
Register(id) ==
    /\ slot[id] = "idle" \/ id \in DOMAIN table
    /\ IF id \in DOMAIN table
       THEN /\ note' = [Note("register", id) EXCEPT !.raised = TRUE]
            /\ UNCHANGED <<table, slot, timers, seen>>
       ELSE /\ table' = [i \in DOMAIN table \cup {id} |->
                            IF i = id THEN PendingRequest(id) ELSE table[i]]
            /\ slot' = [slot EXCEPT ![id] = "waiting"]
            /\ timers' = timers \cup {id}
            /\ note' = [Note("register", id) EXCEPT !.applied = TRUE]
            /\ UNCHANGED seen
    /\ UNCHANGED <<vars, uvars, origin>>

\* A terminal response for a dispatched identifier arrives: the first one,
\* a duplicate, or one that comes after the timeout.
Respond(id, outcome) ==
    /\ slot[id] # "idle"
    /\ \E cancelled \in (IF id \in DOMAIN table THEN BOOLEAN ELSE {FALSE}) :
          Resolve(id, outcome, cancelled)
    /\ UNCHANGED <<vars, uvars, origin>>

\* progress taking every update for a terminal one.
ProgressResolves(id) ==
    /\ slot[id] # "idle"
    /\ IF id \in DOMAIN table
       THEN /\ slot' = [slot EXCEPT ![id] = "success"]
            /\ table' = [i \in DOMAIN table \ {id} |-> table[i]]
            /\ note' = [Note("progress", id) EXCEPT !.applied = TRUE]
            /\ UNCHANGED <<timers, seen>>
       ELSE /\ note' = Note("progress", id)
            /\ UNCHANGED <<table, slot, timers, seen>>
    /\ UNCHANGED <<vars, uvars, origin>>

\* progress(id, update): with an entry, the last activity is reset, the
\* timer rescheduled from now and the update delivered to the observer;
\* without one the update is ignored.
Progress(id) ==
    /\ slot[id] # "idle"
    /\ id \in DOMAIN table => seen[id] < MaxProgress
    /\ IF id \in DOMAIN table
       THEN /\ table' = [table EXCEPT ![id] = PendingRequest(id)]
            /\ seen' = [seen EXCEPT ![id] = @ + 1]
            /\ note' = [Note("progress", id) EXCEPT !.applied = TRUE]
            /\ UNCHANGED <<slot, timers>>
       ELSE /\ note' = Note("progress", id)
            /\ UNCHANGED <<table, slot, timers, seen>>
    /\ UNCHANGED <<vars, uvars, origin>>

\* A timer whose callback runs only when its entry is gone.
TimerFireLateOnly(id) ==
    /\ id \in timers
    /\ id \notin DOMAIN table
    /\ Resolve(id, "timeout", TRUE)
    /\ UNCHANGED <<vars, uvars, origin>>

\* Timer firing: the callback of a timer that ran out, or a late one whose
\* entry is gone, resolves the identifier with Timeout.
TimerFire(id) ==
    /\ id \in timers
    /\ id \in DOMAIN table => table[id].timeout_handle = 0
    /\ Resolve(id, "timeout", TRUE)
    /\ UNCHANGED <<vars, uvars, origin>>

\* One clock tick passes for every entry; a timer that ran out fires before
\* the next tick.
Tick ==
    /\ DOMAIN table # {}
    /\ \A i \in DOMAIN table : table[i].timeout_handle > 0
    /\ table' = [i \in DOMAIN table |->
                    [table[i] EXCEPT !.timeout_handle = @ - 1,
                                     !.last_activity = @ + 1]]
    /\ note' = Note("tick", 0)
    /\ UNCHANGED <<slot, timers, seen>>
    /\ UNCHANGED <<vars, uvars, origin>>

PendingNext ==
    \/ \E id \in Ids : Register(id)
    \/ \E id \in Ids, outcome \in {"success", "error"} : Respond(id, outcome)
    \/ \E id \in Ids : Progress(id)
    \/ \E id \in Ids : TimerFire(id)
    \/ Tick

PendingSpec == Init /\ [][PendingNext]_pvars

\* ---- rgba_to_hex ----

\* Colour components are multiples of 1/Den, written as their numerators
\* 0..MaxNum (MaxNum > Den: a component above 1.0); Missing is a key the
\* dict does not have.
Den == 4
MaxNum == 5
Missing == -1
\* Line 485: the factor from a component to a channel value.
Scale == 255

\* None, a dict with some of the keys r, g, b, a (none of them: the empty
\* dict), or a value that is no dict and has no get.
Components == {Missing} \cup 0..MaxNum
Colors ==
    {[kind |-> "none", r |-> Missing, g |-> Missing, b |-> Missing,
      a |-> Missing],
     [kind |-> "other", r |-> Missing, g |-> Missing, b |-> Missing,
      a |-> Missing]}
    \cup [kind : {"dict"}, r : Components, g : Components, b : Components,
          a : {Missing, Den}]

\* Line 480: `not color`.
Falsy(c) ==
    \/ c.kind = "none"
    \/ c.kind = "dict" /\ c.r = Missing /\ c.g = Missing /\ c.b = Missing
                       /\ c.a = Missing

\* color.get(key, 0), as a numerator.
Get(x) == IF x = Missing THEN 0 ELSE x

\* int(x * 255) rounding to the nearest integer instead of truncating.
IntNearest(num) == (2 * num * Scale + Den) \div (2 * Den)

\* Lines 485-487: int(x * 255) for x = num/Den >= 0.
IntPart(num) == (num * Scale) \div Den

HexDigit == <<"0", "1", "2", "3", "4", "5", "6", "7", "8", "9",
              "a", "b", "c", "d", "e", "f">>

RECURSIVE HexOf(_)
\* format(n, 'x') for n >= 0.
HexOf(n) ==
    IF n < 16 THEN <<HexDigit[n + 1]>>
    ELSE HexOf(n \div 16) \o <<HexDigit[(n % 16) + 1]>>

\* Line 494: format(n, '02x'): padded with a zero to two digits, and longer
\* when n needs more.
Format02x(n) == IF n < 16 THEN <<"0">> \o HexOf(n) ELSE HexOf(n)

\* rgba_to_hex, lines 478-494, as the sequence of the string's characters.
rgba_to_hex(c) ==
    IF Falsy(c) THEN <<"#", "0", "0", "0", "0", "0", "0">>
    ELSE IF c.kind = "dict"
         THEN <<"#">> \o Format02x(IntPart(Get(c.r)))
                     \o Format02x(IntPart(Get(c.g)))
                     \o Format02x(IntPart(Get(c.b)))
         ELSE <<"#">> \o Format02x(0) \o Format02x(0) \o Format02x(0)

\* One call of rgba_to_hex.
Convert(c) ==
    /\ color' = c
    /\ hex' = rgba_to_hex(c)
    /\ UNCHANGED <<vars, pvars, origin>>

UtilNext == \E c \in Colors : Convert(c)

UtilSpec == Init /\ [][UtilNext]_uvars

\* The table on a running event loop: time passes, and a timer callback
\* that is due runs.
PendingFair ==
    /\ PendingSpec
    /\ WF_pvars(Tick)
    /\ \A id \in Ids : WF_pvars(TimerFire(id))

(***************************************************************************)
(* Properties.                                                             *)
(***************************************************************************)

\* How many copies of frame id the sequence of frames q holds.
Count(q, id) == Cardinality({k \in 1..Len(q) : q[k].id = id})

\* The latest step ended a broadcast (the pass completed, or an exception
\* left it).
BroadcastEnded == last.op \in {"complete", "abort"}

\* Every member throughout of the broadcast that just ended whose transport
\* works, the sender excepted, has been sent its frame.
AllReached ==
    \A m \in last.owed \ {last.e} : Count(inbox[m], last.id) >= 1

\* C1: a channel name is in the registry if and only if its member set is
\* non-empty: no channel of the registry is empty.
NoEmptyChannel == \A c \in DOMAIN channels : channels[c] # {}

\* C2: a broadcast never sends the frame to its own sender: in every send
\* of every broadcast, the endpoint sent to is not the sender.
NoEcho == last.op = "send" => last.to # last.e

\* C2 witness: a member's broadcast has just delivered its frame to another
\* member while the sender is in the walked set.
NoEchoWitness ==
    /\ last.op = "send" /\ last.ok /\ last.member
    /\ last.e \in Members(channels, last.chan)
    /\ Count(inbox[last.to], last.id) = 1

\* C3: when a member of channel C sends a message frame to C and the
\* membership of C does not change during the broadcast, the pass completes
\* and every other member whose transport works has the frame exactly once.
ExactlyOnce ==
    (BroadcastEnded /\ last.member /\ last.stable) =>
        /\ last.op = "complete"
        /\ \A m \in last.owed \ {last.e} : Count(inbox[m], last.id) = 1

\* C3 witness: such a broadcast completed with a failed delivery to one
\* member and a working one besides the sender.
ExactlyOnceWitness ==
    /\ last.op = "complete" /\ last.member /\ last.stable
    /\ last.failed # {}
    /\ last.owed \ {last.e} # {}

\* C4: a message frame is broadcast only if its sender is a member of the
\* named channel: no broadcast is run for a sender that is not a member.
MembersOnly == (last.op = "send" \/ BroadcastEnded) => last.member

\* C5: a message frame whose channel is missing or absent from the registry
\* is answered by one reply, written to the sender alone (it reaches the
\* sender unless the sender's transport is broken), carrying the frame's id
\* and the channel; no inbox, and neither the endpoint set nor the registry,
\* changes.
RejectReply ==
    [][ ( /\ last'.op = "reject" \/ nmsgs' = nmsgs + 1
          /\ last'.chan = NoChannel \/ last'.chan \notin DOMAIN channels )
        => /\ last'.op = "reject"
           /\ last'.sent =
                IF last'.e \in broken THEN <<>>
                ELSE << [to |-> last'.e,
                         frame |-> [type |-> "notfound", id |-> last'.id,
                                    channel |-> last'.chan]] >>
           /\ inbox' = inbox
           /\ clients' = clients
           /\ channels' = channels ]_vars

\* C5 witness: a frame naming a channel absent from the registry has just
\* been answered.
RejectReplyWitness ==
    /\ last.op = "reject" /\ last.chan \in ChannelNames
    /\ last.sent # <<>>
    /\ DOMAIN channels # {}

\* C6, as claimed: an endpoint is a member of at most one channel.
AtMostOneChannel ==
    \A e \in Endpoints :
        Cardinality({c \in DOMAIN channels : e \in channels[c]}) <= 1

\* C6, amended: a join adds the endpoint to the named channel and removes
\* no endpoint from any channel, so an endpoint can be a member of several
\* channels at once.
JoinKeepsMemberships ==
    [][ last'.op = "join" =>
          /\ last'.e \in Members(channels', last'.chan)
          /\ \A c \in DOMAIN channels :
                c \in DOMAIN channels' /\ channels[c] \subseteq channels'[c]
      ]_vars

\* C6 witness: an endpoint that has just joined is a member of two channels.
TwoChannelsWitness ==
    /\ last.op = "join"
    /\ Cardinality({c \in DOMAIN channels : last.e \in channels[c]}) = 2

\* C7: a delivery failure to one member does not abort the broadcast: once
\* the broadcast of a member has ended with a failed delivery, every other
\* member throughout whose transport works has the frame.
FailureDoesNotAbort ==
    (BroadcastEnded /\ last.member /\ last.failed # {}) => AllReached

\* C8: when a pass completes, every client whose delivery failed is out of
\* the broadcast's channel and out of the endpoint set; the sends of the
\* pass change neither the endpoint set nor the registry.
CleanupAfterPass ==
    [][ /\ last'.op = "complete" =>
              \A c \in last'.failed :
                  /\ c \notin clients'
                  /\ c \notin Members(channels', last'.chan)
        /\ last'.op = "send" =>
              (clients' = clients /\ channels' = channels) ]_vars

\* C8 witness: a pass has just completed in which a delivery failed.
CleanupWitness ==
    /\ last.op = "complete" /\ last.failed # {}
    /\ last.failed \cap clients = {}

\* C9: a broadcast is safe against registry mutation by other connections
\* while it is suspended: whatever joins and disconnects happen meanwhile,
\* once the broadcast of a member has ended, every endpoint that was a
\* member throughout and whose transport works has the frame.
SafeUnderMutation == (BroadcastEnded /\ last.member) => AllReached

\* C10: within a channel, frames are delivered in arrival order: whenever
\* the broadcast of a member delivers a frame, the frames of each channel in
\* the recipient's inbox are in the order their handling began.
ArrivalOrder ==
    (last.op = "send" /\ last.ok /\ last.member) =>
        LET q == inbox[last.to]
        IN  \A j, k \in 1..Len(q) :
                (j < k /\ q[j].channel = q[k].channel) => q[j].id <= q[k].id

\* The direct reply a handler step for endpoint e writes when it answers with
\* frame f: one frame, to e, unless e's own transport is already broken.
OneReply(e, f) == IF e \in broken THEN <<>> ELSE <<[to |-> e, frame |-> f]>>

\* The channels endpoint e is a member of.
ChannelsOf(e) == {c \in DOMAIN channels : e \in channels[c]}

\* C11: a join frame that names a channel puts the sender into that channel
\* and writes exactly one frame, the confirmation carrying the channel name,
\* to the joining endpoint; no other endpoint receives anything.
JoinAck ==
    [][ last'.op = "join" =>
            /\ last'.e \in Members(channels', last'.chan)
            /\ last'.sent = OneReply(last'.e, [type |-> "system", id |-> 0,
                                               channel |-> last'.chan])
            /\ inbox' = inbox ]_vars

JoinAckWitness ==
    /\ last.op = "join"
    /\ ~last.member
    /\ last.sent # <<>>
    /\ Cardinality(Members(channels, last.chan)) >= 2

\* C12: a join frame without a channel name is answered with one error
\* frame, to the sender only, and changes neither the endpoint set, nor the
\* registry, nor any other endpoint's deliveries.
JoinWithoutChannel ==
    [][ (last'.op \in {"join", "badjoin"} /\ last'.chan = NoChannel) =>
            /\ last'.op = "badjoin"
            /\ last'.sent = OneReply(last'.e, [type |-> "error", id |-> 0,
                                               channel |-> NoChannel])
            /\ clients' = clients
            /\ channels' = channels
            /\ inbox' = inbox
            /\ pc' = pc ]_vars

JoinWithoutChannelWitness ==
    /\ last.op = "badjoin"
    /\ last.sent # <<>>
    /\ DOMAIN channels # {}

\* C13: a join frame from an endpoint that is already a member of the named
\* channel leaves the endpoint set and the registry exactly as they were.
JoinIdempotent ==
    [][ (last'.op = "join" /\ last'.e \in Members(channels, last'.chan)) =>
            /\ channels' = channels
            /\ clients' = clients ]_vars

JoinIdempotentWitness ==
    /\ last.op = "join"
    /\ last.member
    /\ Cardinality(Members(channels, last.chan)) >= 2

OtherTypeIgnored ==
    [][ last'.op \in {"direct", "unknown"} =>
            /\ last'.sent = <<>>
            /\ pc'[last'.e] = "recv"
            /\ pc' = pc
            /\ clients' = clients
            /\ channels' = channels
            /\ inbox' = inbox ]_vars

OtherTypeIgnoredWitness ==
    /\ last.op = "direct"
    /\ last.e \notin broken
    /\ Cardinality(ChannelsOf(last.e)) = 2

\* C16: once a connection's handler has ended, the endpoint is in neither
\* the endpoint set nor any channel, the step that ended it leaves no empty
\* channel in the registry, and no frame is sent to the endpoint afterwards.
HandlerEndCleans ==
    /\ \A e \in Endpoints :
          pc[e] = "closed" => (e \notin clients /\ ChannelsOf(e) = {})
    /\ last.op = "disconnect" => \A c \in DOMAIN channels : channels[c] # {}
    /\ last.op = "send" => pc[last.to] # "closed"

HandlerEndCleansWitness ==
    /\ last.op = "disconnect"
    /\ inbox[last.e] # <<>>
    /\ DOMAIN channels = {}

\* C17: a step that unregisters endpoints (the end of a handler, or the
\* clean-up of a pass) removes only them: every other endpoint stays in the
\* endpoint set and in each of its channels, nothing is added, and a channel
\* disappears only if it has no remaining member.
UnregisterLeavesOthers ==
    [][ last'.op \in {"disconnect", "complete"} =>
            LET gone == IF last'.op = "disconnect" THEN {last'.e}
                        ELSE last'.failed
            IN  /\ clients \ gone \subseteq clients'
                /\ clients' \subseteq clients
                /\ \A c \in DOMAIN channels :
                      channels[c] \ gone # {} =>
                          (c \in DOMAIN channels'
                           /\ channels[c] \ gone \subseteq channels'[c])
                /\ \A c \in DOMAIN channels' :
                      c \in DOMAIN channels /\ channels'[c] \subseteq channels[c]
      ]_vars

UnregisterLeavesOthersWitness ==
    /\ last.op = "disconnect"
    /\ inbox[last.e] # <<>>
    /\ \E c \in DOMAIN channels : Cardinality(channels[c]) >= 2

\* C18 (as claimed): a connection opened on the health path is not
\* registered as a relay client and is sent the health report.
HealthPathServed ==
    (last.op = "connect" /\ last.path = HealthPath) =>
        /\ last.e \notin clients
        /\ last.sent = <<[to |-> last.e, frame |-> HealthReport]>>

\* C19 (as claimed): a message frame addressed to a channel without any
\* member draws no error reply.
NoErrorForEmptyChannel ==
    (last.op = "reject" /\ last.chan # NoChannel) => last.sent = <<>>

\* C19 (amended): a message frame addressed to a channel that is in the
\* registry and has no member other than the sender draws no error: the
\* relay writes no reply, delivers the frame to nobody and changes nothing.
SoleMemberNoError ==
    [][ (/\ last'.op \in {"reject", "send", "complete", "abort"}
         /\ last'.id = nmsgs + 1
         /\ last'.chan \in DOMAIN channels
         /\ channels[last'.chan] \subseteq {last'.e}) =>
            /\ last'.op = "complete"
            /\ last'.sent = <<>>
            /\ inbox' = inbox
            /\ clients' = clients
            /\ channels' = channels ]_vars

SoleMemberWitness ==
    /\ last.op = "complete"
    /\ last.member
    /\ last.stable
    /\ last.owed = {last.e}
    /\ last.failed = {}
    /\ inbox = [e \in Endpoints |-> <<>>]

\* C20: a pending request is resolved at most once.  A fulfilled slot never
\* changes; a slot is fulfilled only by a resolve that finds the entry, and
\* that resolve removes the entry; a resolve that finds no entry (a duplicate
\* response, a late timer) changes nothing and raises nothing.
ResolvedOnce ==
    [][ /\ \A id \in Ids :
              /\ slot[id] \in Terminal => slot'[id] = slot[id]
              /\ (slot[id] \notin Terminal /\ slot'[id] \in Terminal) =>
                     /\ id \in DOMAIN table
                     /\ id \notin DOMAIN table'
                     /\ note'.op = "resolve" /\ note'.id = id
                     /\ note'.outcome = slot'[id]
              /\ id \in DOMAIN table' <=> slot'[id] = "waiting"
        /\ note'.op = "resolve" =>
              /\ ~note'.raised
              /\ note'.applied <=> note'.id \in DOMAIN table
              /\ note'.id \notin DOMAIN table =>
                     (table' = table /\ slot' = slot /\ seen' = seen)
      ]_pvars

\* A timer fires late, after the response has fulfilled the slot.
ResolvedOnceWitness ==
    /\ note.op = "resolve"
    /\ ~note.applied
    /\ note.outcome = "timeout"
    /\ slot[note.id] = "success"

\* C21: a registered request does not stay pending forever: its slot is
\* eventually fulfilled and its entry removed.  (Only a terminal response
\* and the timer resolve, and only the timer is bound to act, so without a
\* terminal response the outcome is Timeout.)
NeverPendingForever ==
    \A id \in Ids :
        (id \in DOMAIN table) ~>
            (id \notin DOMAIN table /\ slot[id] \in Terminal)

\* A request whose deadline progress had extended times out.
TimedOutWitness ==
    /\ note.op = "resolve"
    /\ note.applied
    /\ note.outcome = "timeout"
    /\ slot[note.id] = "timeout"
    /\ seen[note.id] > 0

\* C22: a progress update never resolves a request: it leaves every slot and
\* the set of entries as they are, it reaches the observer only while the
\* request is pending, and the terminal success that follows fulfils the
\* slot with success without touching what the observer has seen.
ProgressNeverResolves ==
    [][ /\ note'.op = "progress" =>
              /\ slot' = slot
              /\ DOMAIN table' = DOMAIN table
              /\ note'.applied <=> note'.id \in DOMAIN table
              /\ note'.applied => seen'[note'.id] = seen[note'.id] + 1
        /\ \A id \in Ids :
              seen'[id] # seen[id] =>
                  (slot[id] = "waiting" /\ slot'[id] = "waiting")
        /\ (note'.op = "resolve" /\ note'.applied) =>
              (slot'[note'.id] = note'.outcome /\ seen' = seen)
      ]_pvars

ProgressThenSuccessWitness ==
    /\ note.op = "resolve"
    /\ note.applied
    /\ note.outcome = "success"
    /\ slot[note.id] = "success"
    /\ seen[note.id] = MaxProgress

\* C23: an operation on one identifier leaves every other identifier's
\* entry, slot and observer alone: a slot changes, and an entry comes or
\* goes, only by an operation on its own identifier.
OwnOutcomeOnly ==
    [][ \A id \in Ids :
          (note'.op \in {"register", "resolve", "progress"}
           /\ note'.id # id) =>
              /\ slot'[id] = slot[id]
              /\ seen'[id] = seen[id]
              /\ id \in DOMAIN table' <=> id \in DOMAIN table
              /\ id \in DOMAIN table => table'[id] = table[id]
      ]_pvars

\* One of two requests in flight is resolved; the other stays pending.
OwnOutcomeWitness ==
    /\ note.op = "resolve"
    /\ note.applied
    /\ \E id \in DOMAIN table : id < note.id

\* The value of a lowercase hex digit.
DigitValue(d) == CHOOSE v \in 0..15 : HexDigit[v + 1] = d

\* C25: for None and for the empty dict the result is '#000000'; for a dict
\* whose components lie between 0 and 1 it is '#' and three pairs of
\* lowercase hex digits, the pair for r, g, b in this order being the
\* integer part of 255 times the component, a missing component counting as
\* 0 and alpha having no influence.
RgbaToHex ==
    hex # <<>> =>
        /\ Falsy(color) => hex = <<"#", "0", "0", "0", "0", "0", "0">>
        /\ (color.kind = "dict" /\ ~Falsy(color)
            /\ color.r <= Den /\ color.g <= Den /\ color.b <= Den) =>
              /\ Len(hex) = 7
              /\ hex[1] = "#"
              /\ \A k \in 2..7 : \E v \in 0..15 : HexDigit[v + 1] = hex[k]
              /\ \A k \in 1..3 :
                    LET x == IF k = 1 THEN color.r
                             ELSE IF k = 2 THEN color.g ELSE color.b
                        num == IF x = Missing THEN 0 ELSE x
                        n == 16 * DigitValue(hex[2 * k])
                                + DigitValue(hex[2 * k + 1])
                    IN  n * Den <= Scale * num /\ Scale * num < (n + 1) * Den

\* A dict with r = 1.0, alpha, b missing and a g whose 255-fold is no
\* integer.
RgbaToHexWitness ==
    /\ color.kind = "dict"
    /\ color.r = Den
    /\ color.g \in 1..(Den - 1) /\ (Scale * color.g) % Den # 0
    /\ color.b = Missing
    /\ color.a = Den
    /\ hex[2] = "f" /\ hex[3] = "f"

\* C26 (as claimed): a frame that is JSON but no object is answered with an
\* error reply to its sender.
NonObjectAnswered ==
    (last.op = "nonobject" /\ last.e \notin broken) =>
        (Len(last.sent) = 1 /\ last.sent[1].to = last.e)

\* The handlers that are running.
Running == {e \in Endpoints : pc[e] \in {"recv", "send"}}

ChannelScoped ==
    last.op = "send" => last.to \in Members(channels, last.chan)

\* A pass goes on after an endpoint it had delivered to has left.
ChannelScopedWitness ==
    /\ last.op = "send"
    /\ last.ok
    /\ \E e \in Endpoints : pc[e] = "closed" /\ Count(inbox[e], last.id) = 1

\* C29 (as claimed): every member of every channel is in the endpoint set.
MembersAreClients ==
    \A c \in DOMAIN channels : channels[c] \subseteq clients

\* C30 (as claimed): the endpoint set is the set of running handlers.
ClientsAreRunning == clients = Running

\* C30 (amended): only running handlers are in the endpoint set; an endpoint
\* enters it when its handler starts, and leaves it when its handler exits
\* or, earlier, by the clean-up of a pass in which a send to it failed.
ClientsLifecycle ==
    [][ /\ clients' \subseteq {e \in Endpoints : pc'[e] \in {"recv", "send"}}
        /\ last'.op = "connect" => last'.e \in clients'
        /\ \A e \in clients' \ clients :
              last'.op = "connect" /\ last'.e = e /\ pc[e] = "new"
        /\ \A e \in clients \ clients' :
              \/ last'.op = "disconnect" /\ last'.e = e
              \/ last'.op = "complete" /\ e \in last'.failed
      ]_vars

\* A handler still runs after the clean-up took its endpoint out.
RunningButRemovedWitness ==
    /\ last.op = "complete"
    /\ \E e \in last.failed : pc[e] = "recv" /\ e \notin clients

\* C31: frames that one connection sent to one channel reach every endpoint
\* that receives both in the order the connection sent them: no copy of the
\* later frame comes before a copy of the earlier one (the frames are
\* numbered in the order the relay read them).
PerSenderFifo ==
    \A c \in Endpoints :
        \A j, k \in 1..Len(inbox[c]) :
            (/\ j < k
             /\ inbox[c][j].channel = inbox[c][k].channel
             /\ origin[inbox[c][j].id] = origin[inbox[c][k].id]) =>
                inbox[c][j].id <= inbox[c][k].id

\* An endpoint is sent the second of two frames that one connection sent to
\* one channel, and holds the first.
PerSenderFifoWitness ==
    /\ last.op = "send"
    /\ last.ok
    /\ \E k \in 1..Len(inbox[last.to]) :
          /\ inbox[last.to][k].id < last.id
          /\ inbox[last.to][k].channel = last.chan
          /\ origin[inbox[last.to][k].id] = last.e
    /\ origin[last.id] = last.e

====
